---------------------------- MODULE Spec2Model ----------------------------
(***************************************************************************)
(* Friction-factor engine of the Moody-diagram homework (hw5a.py, hw5b.py). *)
(*                                                                         *)
(* Numbers.  The program computes in binary64.  The model computes on a    *)
(* coarser grid with the same structure: a friction factor f is the        *)
(* integer f * FS, a relative roughness and the argument of a logarithm    *)
(* are integers x * ArgScale, a logarithm keeps MantBits bits of its        *)
(* argument (the model's machine epsilon is 2^-MantBits where binary64's   *)
(* is 2^-53), and the non-finite results numpy produces instead of raising *)
(* (inf, nan) are values of their own.  Reynolds numbers are integers.     *)
(***************************************************************************)
EXTENDS Integers, Sequences, FiniteSets, TLC

VARIABLES
    hybrd,       \* fsolve as the function of its arguments it is
    rng,         \* state of the module-level generator of random
    pc,          \* "idle", "fsolve" (inside the solve), "done"
    call,        \* the call in progress: entry point and arguments
    branch,      \* the branch ffPoint took
    solve,       \* ff's Re, rr and initial_guess during a Colebrook solve
    nfev,        \* residual evaluations of the solve so far
    probe,       \* the last residual evaluation
    outcome,     \* what fsolve handed back
    result,      \* the value the call returned
    evals,       \* the functions the call evaluated
    trans,       \* ffPoint's locals in the transitional branch
    flow_type,   \* the flow type main printed
    seen         \* history: an earlier laminar or turbulent ffPoint result

vars == <<hybrd, rng, pc, call, branch, solve, nfev, probe, outcome, result,
          evals, trans, flow_type, seen>>

(***************************************************************************)
(* The number grid.                                                        *)
(***************************************************************************)
MantBits == 7 + 7
MantScale == 2 ^ MantBits              \* 1.0 of a mantissa, of a log2
ArgBits == 10 + 10
ArgScale == 2 ^ ArgBits                \* 1.0 of rr and of a log argument
LogScale == 4 * MantScale              \* 1.0 of a log10
FS == 10 ^ 4                           \* 1.0 of a friction factor
RS == 10 ^ 3                           \* 1.0 of a Colebrook residual

Fin(n) == [k |-> "fin", v |-> n]
PInf == [k |-> "inf", v |-> 1]
NInf == [k |-> "inf", v |-> -1]
NaN == [k |-> "nan", v |-> 0]
Exc == [k |-> "exc", v |-> 0]           \* an exception propagating to the caller
IsFinite(x) == x.k = "fin"
Abs(n) == IF n < 0 THEN -n ELSE n
Sign(n) == IF n < 0 THEN -1 ELSE IF n > 0 THEN 1 ELSE 0

\* IEEE addition, subtraction, product with and quotient by an integer
VAdd(a, b) ==
    CASE a.k = "exc" \/ b.k = "exc" -> Exc
      [] a.k = "nan" \/ b.k = "nan" -> NaN
      [] a.k = "inf" /\ b.k = "inf" -> IF a.v = b.v THEN a ELSE NaN
      [] a.k = "inf" -> a
      [] b.k = "inf" -> b
      [] OTHER -> Fin(a.v + b.v)
VNeg(a) == IF a.k \in {"fin", "inf"} THEN [k |-> a.k, v |-> -a.v] ELSE a
VSub(a, b) == VAdd(a, VNeg(b))
VMulInt(a, n) ==
    CASE a.k = "exc" -> Exc
      [] a.k = "nan" -> NaN
      [] a.k = "inf" -> IF n = 0 THEN NaN ELSE [k |-> "inf", v |-> a.v * Sign(n)]
      [] OTHER -> Fin(a.v * n)
VDivInt(a, d) == IF a.k = "fin" THEN Fin(a.v \div d) ELSE a
\* a <= b as binary64 compares: false when either is nan
VLe(a, b) ==
    CASE a.k = "fin" /\ b.k = "fin" -> a.v <= b.v
      [] a.k = "inf" /\ b.k = "fin" -> a.v < 0
      [] a.k = "fin" /\ b.k = "inf" -> b.v > 0
      [] a.k = "inf" /\ b.k = "inf" -> a.v <= b.v
      [] OTHER -> FALSE

\* An intermediate value used more than once is bound by a quantifier over
\* a singleton, { e(x) : x \in {v} }, so that it is computed once.
RECURSIVE ISqrtIter(_, _, _)
ISqrtIter(n, lo, hi) ==
    IF lo >= hi THEN lo
    ELSE CHOOSE r \in
             { IF mid * mid <= n THEN ISqrtIter(n, mid, hi)
                                 ELSE ISqrtIter(n, lo, mid - 1)
               : mid \in {(lo + hi + 1) \div 2} } : TRUE
\* floor(sqrt(n)), n < 2^31
ISqrt(n) == ISqrtIter(n, 0, 46340)

RECURSIVE FloorLog2(_)
FloorLog2(n) == IF n < 2 THEN 0 ELSE 1 + FloorLog2(n \div 2)

\* One bit of the fraction of log2: square the mantissa m (in [1, 2), in
\* units of 1 / MantScale); the bit is 1 when the square reaches 2.
RECURSIVE Log2Frac(_, _, _)
Log2Frac(m, i, acc) ==
    IF i > MantBits THEN acc
    ELSE CHOOSE r \in
             { IF sq >= 2 * MantScale
               THEN Log2Frac(sq \div 2, i + 1, acc + 2 ^ (MantBits - i))
               ELSE Log2Frac(sq, i + 1, acc) : sq \in {(m * m) \div MantScale} } : TRUE

\* log2(n) * MantScale for an integer n >= 1: the exponent, then the
\* fraction bit by bit from the mantissa cut to MantBits bits.
Log2Int(n) ==
    CHOOSE r \in
        { e * MantScale
            + Log2Frac(IF e <= MantBits THEN n * 2 ^ (MantBits - e)
                                        ELSE n \div 2 ^ (e - MantBits), 1, 0)
          : e \in {FloorLog2(n)} } : TRUE

\* log10(x) * LogScale for x = a / ArgScale, a >= 1 (np.log10)
Log10Arg(a) ==
    CHOOSE r \in {((Log2Int(n) - ArgBits * MantScale) * 1233) \div 1024 : n \in {a}} : TRUE

RECURSIVE Root2(_)
\* 2^(2^-i) * MantScale
Root2(i) == IF i = 0 THEN 2 * MantScale ELSE ISqrt(Root2(i - 1) * MantScale)
Root2Tab == [i \in 1..MantBits |-> Root2(i)]

RECURSIVE Exp2Frac(_, _, _)
Exp2Frac(fr, i, m) ==
    IF i > MantBits THEN m
    ELSE IF (fr \div 2 ^ (MantBits - i)) % 2 = 1
         THEN Exp2Frac(fr, i + 1, (m * Root2Tab[i]) \div MantScale)
         ELSE Exp2Frac(fr, i + 1, m)

\* Re ** 0.9 as <<exponent n, mantissa m>>: m / MantScale * 2^n
Pow09(Re) ==
    CHOOSE r \in
        { <<y \div MantScale, Exp2Frac(y % MantScale, 1, MantScale)>>
          : y \in {(9 * Log2Int(Re)) \div 10} } : TRUE

(***************************************************************************)
(* hw5a.py                                                                 *)
(***************************************************************************)

\* rr / 3.7, rr and the quotient in units of 1 / ArgScale
RrOver37(rr) == (rr * 10) \div 37

\* 5.74 / Re ** 0.9 in units of 1 / ArgScale
SJTerm(Re) ==
    CHOOSE r \in
        { LET u == (574 * 2 ^ 21) \div p[2]
          IN IF p[1] <= 13 THEN (u * 2 ^ (13 - p[1])) \div 100
                           ELSE u \div (100 * 2 ^ (p[1] - 13))
          : p \in {Pow09(Re)} } : TRUE

\* 0.25 / L ** 2 for a log10 L in units of 1 / LogScale.  numpy divides by
\* zero without raising: the quotient is inf (and a RuntimeWarning).
QuarterOverSquare(L) ==
    CHOOSE r \in
        { IF l = 0 THEN PInf
          ELSE Fin(((((FS \div 4) * LogScale) \div Abs(l)) * LogScale) \div Abs(l))
          : l \in {L} } : TRUE

\* def swamee_jain(Re, rr):
\*     return 0.25 / (np.log10((rr / 3.7) + (5.74 / Re ** 0.9))) ** 2
swamee_jain(Re, rr) ==
    CHOOSE r \in
        { IF arg = 0 THEN Fin(0)       \* log10(0) = -inf, 0.25 / inf = 0
          ELSE QuarterOverSquare(Log10Arg(arg))
          : arg \in {RrOver37(rr) + SJTerm(Re)} } : TRUE

\* The value colebrook returns for a non-physical candidate: 1e6
Sentinel == Fin(10 ^ 6 * RS)

\* The residual expression of colebrook, for f > 0 or f not finite:
\*     1 / np.sqrt(f) + 2.0 * np.log10((rr / 3.7) + (2.51 / (Re * np.sqrt(f))))
ColebrookExpr(Re, rr, f) ==
    CASE f.k = "nan" -> NaN
      [] f.k = "inf" ->                \* 1/sqrt(inf) = 0, 2.51/(Re*inf) = 0
            IF RrOver37(rr) = 0 THEN NInf
            ELSE Fin((2 * RS * Log10Arg(RrOver37(rr))) \div LogScale)
      [] f.v < 0 -> NaN                \* np.sqrt of a negative number
      [] f.v = 0 -> PInf               \* 1/sqrt(0) = inf, log10(inf) = inf
      [] OTHER ->
            CHOOSE r \in
                { LET inv == (RS * FS) \div sq                \* 1/sqrt(f) * RS
                      b == (((251 * ArgScale) \div 100) * 100) \div ((Re * sq) \div 100)
                      arg == RrOver37(rr) + b
                  IN IF arg = 0 THEN NInf
                     ELSE Fin(inv + (2 * RS * Log10Arg(arg)) \div LogScale)
                  : sq \in {ISqrt(f.v * FS)} } : TRUE  \* sq = sqrt(f) * FS

\* colebrook with the guard written f < 0: the candidate 0 gets through
colebrook_strict(Re, rr, f) ==
    IF (f.k \in {"fin", "inf"} /\ f.v < 0) \/ Re <= 0
    THEN [val |-> Sentinel, ops |-> {}]
    ELSE [val |-> ColebrookExpr(Re, rr, f), ops |-> {"sqrt", "log10"}]

\* def colebrook(f): the residual and the numpy functions it evaluated.
\*     if f <= 0 or Re <= 0: return 1e6
colebrook(Re, rr, f) ==
    IF (f.k = "fin" /\ f.v <= 0) \/ (f.k = "inf" /\ f.v < 0) \/ Re <= 0
    THEN [val |-> Sentinel, ops |-> {}]
    ELSE [val |-> ColebrookExpr(Re, rr, f), ops |-> {"sqrt", "log10"}]

\* 64 / Re
Laminar(Re) == Fin((64 * FS) \div Re)

\* What fsolve(colebrook, initial_guess, full_output=True) hands back:
\* ier = 1 with the root x, another ier, or an exception.
Conv(x) == [kind |-> "conv", x |-> x]
NoConv(x) == [kind |-> "noconv", x |-> x]
Raise == [kind |-> "raise", x |-> NaN]

\* the try block without the except clause: an exception of the solve
\* reaches the caller
FfResultReraise(o, Re, rr) ==
    CASE o.kind = "conv" -> o.x
      [] o.kind = "raise" -> Exc
      [] OTHER -> swamee_jain(Re, rr)

\* ff adding a term that depends on the state of the shared generator
FfResultStateful(o, Re, rr) ==
    VAdd(IF o.kind = "conv" THEN o.x ELSE swamee_jain(Re, rr), Fin(rng))

\* The try block of ff: result[0][0] when result[2] == 1, else (and in the
\* bare except) swamee_jain(Re, rr).
FfResult(o, Re, rr) ==
    IF o.kind = "conv" THEN o.x ELSE swamee_jain(Re, rr)

\* The value ff(Re, rr, CBEQN) returns, fsolve being the function hybrd
ff(Re, rr, CBEQN) ==
    IF CBEQN THEN FfResult(hybrd[<<Re, rr>>], Re, rr) ELSE Laminar(Re)

(***************************************************************************)
(* hw5b.py                                                                 *)
(***************************************************************************)

\* ffPoint with the turbulent test written Re > 4000
RegimeStrict(Re) ==
    IF Re > 4000 THEN "turbulent"
    ELSE IF Re <= 2000 THEN "laminar"
    ELSE "transition"

\* The branch ffPoint takes: if Re >= 4000 / elif Re <= 2000 / else
Regime(Re) ==
    IF Re >= 4000 THEN "turbulent"
    ELSE IF Re <= 2000 THEN "laminar"
    ELSE "transition"

\* mean = Lamff + (CBff - Lamff) * (Re - 2000) / 2000
Interp(Lamff, CBff, Re) ==
    VAdd(Lamff, VDivInt(VMulInt(VSub(CBff, Lamff), Re - 2000), 2000))

\* sig = 0.2 * mean
Sigma(mean) == VDivInt(VMulInt(mean, 2), 10)

\* rnd.normalvariate(mu, sigma) = mu + z * sigma, z the standard normal
\* deviate the generator produced
normalvariate(mu, sigma, z) == VAdd(mu, VMulInt(sigma, z))

\* main: if Re < 2000 / elif Re > 4000 / else
FlowType(Re) ==
    IF Re < 2000 THEN "laminar"
    ELSE IF Re > 4000 THEN "turbulent"
    ELSE "transition"

(***************************************************************************)
(* Bounds and inputs.                                                      *)
(***************************************************************************)
MaxFev == 3          \* fsolve's cap on residual evaluations (200 * (n + 1))
ZMax == 6            \* |z| of a normal deviate, in whole sigmas
RngPeriod == 2       \* states of the generator the model tells apart

RrRough == ArgScale \div 100                          \* rr = 0.01
\* the rr at which rr / 3.7 + 5.74 / 4000 ** 0.9 is 1
RrPole == ((ArgScale - SJTerm(4000)) * 37) \div 10 + 1

Points ==
    { <<1000, 0>>, <<2000, 0>>, <<2000, RrRough>>, <<3000, 0>>, <<3000, RrPole>>,
      <<4000, 0>>, <<4000, RrPole>>, <<10000, RrRough>> }
\* where a Colebrook solve is asked for: by ffPoint, by plotMoody
SolvePoints == {p \in Points : p[1] >= 4000}
ZVals == {-ZMax, 0, ZMax}

\* The candidates fsolve may report as converged: approximate zeros of the
\* residual near the start; a start that is not finite never moves.
RootWindow == 4 * 5
ResTol == RS \div 200
Roots(Re, rr) ==
    LET x0 == swamee_jain(Re, rr)
    IN IF ~IsFinite(x0) THEN {x0}
       ELSE {Fin(f) : f \in {g \in (x0.v - RootWindow)..(x0.v + RootWindow) :
                 /\ g > 0
                 /\ Abs(colebrook(Re, rr, Fin(g)).val.v) <= ResTol}}
Outcomes(Re, rr) ==
    {Conv(x) : x \in Roots(Re, rr)} \cup {NoConv(swamee_jain(Re, rr)), Raise}
OutcomeTab == [p \in SolvePoints |-> Outcomes(p[1], p[2])]

\* The candidates the solver may evaluate the residual at after the start
ProbeVals(x0) ==
    IF IsFinite(x0) THEN {Fin(x0.v + 1), Fin(0)} ELSE {x0}

NoVal == [k |-> "none", v |-> 0]
NoCall == [entry |-> "none", Re |-> 0, rr |-> 0, CBEQN |-> FALSE]
NoSolve == [Re |-> 0, rr |-> 0, x0 |-> NoVal]
NoProbe == [f |-> NoVal, val |-> NoVal, ops |-> {}]
NoOutcome == [kind |-> "none", x |-> NoVal]
NoTrans == [CBff |-> NoVal, Lamff |-> NoVal, mean |-> NoVal, sig |-> NoVal, z |-> 0]
NoSeen == [Re |-> 0, rr |-> 0, result |-> NoVal, rng |-> 0]

Init ==
    /\ hybrd \in [SolvePoints -> UNION {OutcomeTab[p] : p \in SolvePoints}]
    /\ \A p \in SolvePoints : hybrd[p] \in OutcomeTab[p]
    /\ rng = 0
    /\ pc = "idle"
    /\ call = NoCall
    /\ branch = "none"
    /\ solve = NoSolve
    /\ nfev = 0
    /\ probe = NoProbe
    /\ outcome = NoOutcome
    /\ result = NoVal
    /\ evals = {}
    /\ trans = NoTrans
    /\ flow_type = "none"
    /\ seen = NoSeen

\* ff, CBEQN true, up to the call of fsolve: the initial guess
BeginSolve(Re, rr) ==
    /\ solve' = [Re |-> Re, rr |-> rr, x0 |-> swamee_jain(Re, rr)]
    /\ pc' = "fsolve"
    /\ nfev' = 0
    /\ probe' = NoProbe
    /\ outcome' = NoOutcome
    /\ result' = NoVal
    /\ trans' = NoTrans
    /\ flow_type' = "none"

\* a call that returns without a solve: ff's else branch, return 64 / Re
ReturnLaminar(Re) ==
    /\ solve' = NoSolve
    /\ pc' = "done"
    /\ nfev' = 0
    /\ probe' = NoProbe
    /\ outcome' = NoOutcome
    /\ result' = Laminar(Re)
    /\ trans' = NoTrans

\* ff computing the initial guess before it tests CBEQN
CallFFGuessFirst(Re, rr, CBEQN) ==
    /\ pc \in {"idle", "done"}
    /\ call' = [entry |-> "ff", Re |-> Re, rr |-> rr, CBEQN |-> CBEQN]
    /\ branch' = "none"
    /\ evals' = {"swamee_jain"}
    /\ IF CBEQN
       THEN BeginSolve(Re, rr)
       ELSE ReturnLaminar(Re) /\ flow_type' = "none"
    /\ UNCHANGED <<hybrd, rng, seen>>

\* ff(Re, rr, CBEQN) called directly (plotMoody, a test)
CallFF(Re, rr, CBEQN) ==
    /\ pc \in {"idle", "done"}
    /\ call' = [entry |-> "ff", Re |-> Re, rr |-> rr, CBEQN |-> CBEQN]
    /\ branch' = "none"
    /\ IF CBEQN
       THEN BeginSolve(Re, rr) /\ evals' = {"swamee_jain"}
       ELSE ReturnLaminar(Re) /\ evals' = {} /\ flow_type' = "none"
    /\ UNCHANGED <<hybrd, rng, seen>>

\* ffPoint(Re, rr), called directly (entry "ffPoint") or by main through
\* calculate_head_loss (entry "main"), up to its first solve or its return
EnterFfPoint(entry, Re, rr) ==
    /\ pc \in {"idle", "done"}
    /\ call' = [entry |-> entry, Re |-> Re, rr |-> rr, CBEQN |-> FALSE]
    /\ branch' = Regime(Re)
    /\ CASE Regime(Re) = "turbulent" ->
                BeginSolve(Re, rr) /\ evals' = {"swamee_jain"}
         [] Regime(Re) = "laminar" ->
                /\ ReturnLaminar(Re)
                /\ evals' = {}
                /\ flow_type' = IF entry = "main" THEN FlowType(Re) ELSE "none"
         [] OTHER ->
                BeginSolve(4000, rr) /\ evals' = {"swamee_jain"}
    /\ UNCHANGED <<hybrd, rng, seen>>

CallFfPoint(Re, rr) == EnterFfPoint("ffPoint", Re, rr)

\* One pass of main's loop: the prompts, calculate_head_loss, the prints.
\* Re and rr stand for what calculate_head_loss derives from the three
\* prompts; its unit conversions, hf_L and the plot are left out.
MainIteration(Re, rr) == EnterFfPoint("main", Re, rr)

\* one call of colebrook(f) by the solver
ColebrookCall(f) ==
    LET r == colebrook(solve.Re, solve.rr, f)
    IN /\ probe' = [f |-> f, val |-> r.val, ops |-> r.ops]
       /\ nfev' = nfev + 1

\* a solve with no cap on its evaluations
FsolveEvalNoCap ==
    /\ pc = "fsolve"
    /\ \E f \in (IF nfev = 0 THEN {solve.x0} ELSE ProbeVals(solve.x0)) :
            LET r == colebrook(solve.Re, solve.rr, f)
            IN /\ probe' = [f |-> f, val |-> r.val, ops |-> r.ops]
               /\ nfev' = IF nfev < MaxFev THEN nfev + 1 ELSE nfev
    /\ evals' = evals \cup {"colebrook"}
    /\ UNCHANGED <<hybrd, rng, pc, call, branch, solve, outcome, result,
                   trans, flow_type, seen>>

\* fsolve evaluates the residual: first at the initial guess
FsolveEval ==
    /\ pc = "fsolve"
    /\ nfev < MaxFev
    /\ \E f \in (IF nfev = 0 THEN {solve.x0} ELSE ProbeVals(solve.x0)) :
            ColebrookCall(f)
    /\ evals' = evals \cup {"colebrook"}
    /\ UNCHANGED <<hybrd, rng, pc, call, branch, solve, outcome, result,
                   trans, flow_type, seen>>

\* fsolve comes back (or raises) and the call runs to its return
FsolveReturn ==
    LET o == hybrd[<<solve.Re, solve.rr>>]
        fval == FfResult(o, solve.Re, solve.rr)
    IN /\ pc = "fsolve"
       /\ nfev >= 1 \/ o.kind = "raise"
       /\ outcome' = o
       /\ pc' = "done"
       /\ IF branch = "transition"
          THEN \E z \in ZVals :
                  LET Lamff == Laminar(2000)
                      mean == Interp(Lamff, fval, call.Re)
                      sig == Sigma(mean)
                  IN /\ trans' = [CBff |-> fval, Lamff |-> Lamff, mean |-> mean,
                                  sig |-> sig, z |-> z]
                     /\ result' = normalvariate(mean, sig, z)
                     /\ rng' = (rng + 1) % RngPeriod
                     /\ evals' = evals \cup {"normalvariate"}
                                   \cup (IF o.kind = "conv" THEN {} ELSE {"fallback"})
          ELSE /\ result' = fval
               /\ evals' = evals \cup (IF o.kind = "conv" THEN {} ELSE {"fallback"})
               /\ UNCHANGED <<rng, trans>>
       /\ flow_type' = IF call.entry = "main" /\ result'.k # "exc"
                       THEN FlowType(call.Re) ELSE "none"
       /\ nfev' = 0
       /\ probe' = NoProbe
       /\ UNCHANGED <<hybrd, call, branch, solve, seen>>

\* history: keep one returned laminar or turbulent ffPoint result
Remember ==
    /\ pc = "done"
    /\ call.entry = "ffPoint"
    /\ branch \in {"laminar", "turbulent"}
    /\ seen = NoSeen
    /\ rng = 0
    /\ seen' = [Re |-> call.Re, rr |-> call.rr, result |-> result, rng |-> rng]
    /\ UNCHANGED <<hybrd, rng, pc, call, branch, solve, nfev, probe, outcome,
                   result, evals, trans, flow_type>>

Next ==
    \/ \E p \in Points : CallFF(p[1], p[2], FALSE)
    \/ \E p \in SolvePoints : CallFF(p[1], p[2], TRUE)
    \/ \E p \in Points : CallFfPoint(p[1], p[2])
    \/ \E p \in Points : MainIteration(p[1], p[2])
    \/ FsolveEval
    \/ FsolveReturn
    \/ Remember

Spec == Init /\ [][Next]_vars

\* The calls ff(Re, rr, True) on their own.  A solve is a synchronous
\* computation: while it is under way it takes its next step.
NextSolve ==
    \/ \E p \in SolvePoints : CallFF(p[1], p[2], TRUE)
    \/ FsolveEval
    \/ FsolveReturn

SpecSolve == Init /\ [][NextSolve]_vars /\ WF_vars(FsolveEval \/ FsolveReturn)

(***************************************************************************)
(* The residual on its own: colebrook applied to candidates the solver may *)
(* hand it, for Reynolds numbers of either sign.                           *)
(***************************************************************************)
ResidualRe == {-1000, 0, 1000, 4000, 10000}
ResidualF == {NInf, Fin(-405), Fin(-1), Fin(0), Fin(1), Fin(399), Fin(405), PInf}

InitResidual ==
    /\ hybrd = [p \in SolvePoints |-> Raise]
    /\ rng = 0
    /\ pc = "residual"
    /\ call = NoCall
    /\ branch = "none"
    /\ solve \in {[Re |-> r, rr |-> q, x0 |-> NoVal] :
                     r \in ResidualRe, q \in {0, RrRough}}
    /\ nfev = 0
    /\ probe = NoProbe
    /\ outcome = NoOutcome
    /\ result = NoVal
    /\ evals = {}
    /\ trans = NoTrans
    /\ flow_type = "none"
    /\ seen = NoSeen

ResidualEval ==
    /\ pc = "residual"
    /\ nfev < MaxFev
    /\ \E f \in ResidualF : ColebrookCall(f)
    /\ UNCHANGED <<hybrd, rng, pc, call, branch, solve, outcome, result,
                   evals, trans, flow_type, seen>>

SpecResidual == InitResidual /\ [][ResidualEval]_vars

(***************************************************************************)
(* Properties.                                                             *)
(***************************************************************************)
Returned == pc = "done"
FromFfPoint == Returned /\ call.entry = "ffPoint"
FromFF(CBEQN) == Returned /\ call.entry = "ff" /\ call.CBEQN = CBEQN
Drew == "normalvariate" \in evals

\* C1: ffPoint chooses its branch from Re alone, whatever rr is.  Re >= 4000
\* returns ff(Re, rr, True), Re <= 2000 returns ff(Re, rr, False), and the
\* random draw is made exactly for 2000 < Re < 4000; both boundary values
\* are on the deterministic side.
C1_BranchFromRe ==
    FromFfPoint =>
        /\ call.Re >= 4000 =>
              /\ branch = "turbulent"
              /\ result = ff(call.Re, call.rr, TRUE)
        /\ call.Re <= 2000 =>
              /\ branch = "laminar"
              /\ result = ff(call.Re, call.rr, FALSE)
        /\ Drew <=> (2000 < call.Re /\ call.Re < 4000)
        /\ Drew <=> (branch = "transition")
C1_Witness ==
    /\ FromFfPoint
    /\ call.Re = 4000
    /\ call.rr = 0
    /\ outcome.kind = "conv"
    /\ result = outcome.x

\* C2: ff(Re, rr, False) returns 64 / Re, the same for every rr, and neither
\* the Colebrook solve nor swamee_jain has been evaluated when it returns.
C2_LaminarExact ==
    FromFF(FALSE) =>
        /\ result = Fin((64 * FS) \div call.Re)
        /\ evals = {}
        /\ outcome = NoOutcome
        /\ solve = NoSolve
C2_Witness ==
    /\ FromFF(FALSE)
    /\ call.Re = 2000
    /\ call.rr = RrRough
    /\ result = Fin((64 * FS) \div 2000)

\* C3: ff(Re, rr, True) returns the root when fsolve reports convergence,
\* and swamee_jain(Re, rr) when it reports anything else or raises; the
\* exception never reaches the caller.
C3_OutcomeDecides ==
    FromFF(TRUE) =>
        /\ outcome = hybrd[<<call.Re, call.rr>>]
        /\ result.k # "exc"
        /\ outcome.kind = "conv" => result = outcome.x
        /\ outcome.kind \in {"noconv", "raise"} =>
              result = swamee_jain(call.Re, call.rr)
C3_Witness ==
    /\ FromFF(TRUE)
    /\ outcome.kind = "raise"
    /\ result = swamee_jain(call.Re, call.rr)
    /\ IsFinite(result)

\* C4: every call of ff and of ffPoint with Re > 0 and rr >= 0 returns a
\* finite friction factor and never raises.
C4_AlwaysFinite == Returned => IsFinite(result)

\* C5: a laminar or turbulent ffPoint call returns the value an earlier call
\* with the same (Re, rr) returned, whatever was called in between and
\* however often the generator was drawn from.
C5_HistoryIndependent ==
    ( /\ FromFfPoint
      /\ branch \in {"laminar", "turbulent"}
      /\ seen # NoSeen
      /\ seen.Re = call.Re
      /\ seen.rr = call.rr ) => result = seen.result
C5_Witness ==
    /\ FromFfPoint
    /\ branch = "turbulent"
    /\ seen # NoSeen
    /\ seen.Re = call.Re
    /\ seen.rr = call.rr
    /\ rng # seen.rng
    /\ result = seen.result

\* C6: the value ffPoint returns is never negative, in any regime and for
\* any draw of the normal sample.
C6_NonNegative ==
    (Returned /\ call.entry \in {"ffPoint", "main"} /\ IsFinite(result))
        => result.v >= 0

\* C7: in the transitional band the mean is
\* f_lam + (f_turb - f_lam) * (Re - 2000) / 2000 with f_lam = ff(2000, rr,
\* False) and f_turb = ff(4000, rr, True), sigma is 0.2 * mean, the mean lies
\* between f_lam and f_turb, and the interpolation gives f_lam at Re = 2000
\* and f_turb at Re = 4000.
C7_Interpolation ==
    (Returned /\ branch = "transition") =>
        LET f_lam == ff(2000, call.rr, FALSE)
            f_turb == ff(4000, call.rr, TRUE)
            MeanAt(r) ==
                VAdd(f_lam, VDivInt(VMulInt(VSub(f_turb, f_lam), r - 2000), 2000))
        IN /\ trans.Lamff = f_lam
           /\ trans.CBff = f_turb
           /\ trans.mean = MeanAt(call.Re)
           /\ trans.sig = VDivInt(VMulInt(trans.mean, 2), 10)
           /\ \/ VLe(f_lam, trans.mean) /\ VLe(trans.mean, f_turb)
              \/ VLe(f_turb, trans.mean) /\ VLe(trans.mean, f_lam)
           /\ MeanAt(2000) = f_lam
           /\ MeanAt(4000) = f_turb

\* C8: every Colebrook solve ends.  The solver evaluates the residual at
\* most MaxFev times, a call whose solve did not converge returns through
\* the fallback, and a solve under way always leads to a returned value.
C8_Terminates ==
    /\ [](nfev <= MaxFev)
    /\ []((Returned /\ outcome.kind \in {"noconv", "raise"}) =>
              "fallback" \in evals)
    /\ (pc = "fsolve") ~> Returned
C8_Witness ==
    /\ pc = "fsolve"
    /\ nfev = MaxFev
    /\ hybrd[<<solve.Re, solve.rr>>].kind = "noconv"

=============================================================================
